---- MODULE Spec2Model ----
(***************************************************************************)
(* Retrieval agent of llm-explorer (Forager): the queryDocument handler,   *)
(* ForagerQueryAgent.processQuery and the page selector                    *)
(* identifyRelevantPages, as a state machine over one query.               *)
(*                                                                         *)
(* JavaScript strings are TLA+ strings; String.prototype methods are the   *)
(* operators of the first section.  JSON values returned by the            *)
(* classification service are records [t, n, s] (type tag, number,         *)
(* string) so that values of different JavaScript types can be compared.   *)
(***************************************************************************)
EXTENDS Integers, Sequences, FiniteSets, TLC

(***************************************************************************)
(* Bounds of the model                                                     *)
(***************************************************************************)
MaxPages == 3
\* processQuery invocations in flight on one agent
MaxCalls == 2
MaxDocs == 1
MaxClients == 2

(***************************************************************************)
(* Program constants                                                       *)
(***************************************************************************)
CandidateCap == 5
EvidenceCap == 10
SourcesCap == 5
CandidateExcerptLen == 1000
ScannedExcerptLen == 800
MinKeywordLen == 3
AdmissionThreshold == 2
ContentWeight == 1
SummaryWeight == 2
TagWeight == 1
SearchContentWeight == 3
SearchSummaryWeight == 2
SearchTagWeight == 1
SearchCap == 10

FallbackAnswer == "No answer could be generated from the available content."
NoResponseMessage == "No response from OpenAI"
ServiceErrorMessage == "Connection error."
EmptyCorpusMessage == "No documents available to query"

(***************************************************************************)
(* String.prototype: charAt, includes, toLowerCase, split(' '), substring  *)
(***************************************************************************)
Min(a, b) == IF a < b THEN a ELSE b

CharAt(s, i) == IF i >= 1 /\ i <= Len(s) THEN SubSeq(s, i, i) ELSE ""

Includes(hay, needle) ==
  \E i \in 1..(Len(hay) - Len(needle) + 1) :
     SubSeq(hay, i, i + Len(needle) - 1) = needle

UpperLetters == "ABCDEFGHIJKLMNOPQRSTUVWXYZ"
LowerLetters == "abcdefghijklmnopqrstuvwxyz"

UpperSet == {CharAt(UpperLetters, i) : i \in 1..26}
LowerOf ==
  [c \in UpperSet |-> CharAt(LowerLetters, CHOOSE i \in 1..26 : CharAt(UpperLetters, i) = c)]

LowerChar(c) == IF c \in UpperSet THEN LowerOf[c] ELSE c

RECURSIVE ToLowerCase(_)
ToLowerCase(s) ==
  IF Len(s) = 0 THEN ""
  ELSE IF Len(s) = 1 THEN LowerChar(s)
  ELSE LET m == Len(s) \div 2
       IN  ToLowerCase(SubSeq(s, 1, m)) \o ToLowerCase(SubSeq(s, m + 1, Len(s)))

\* s.split(' '): the pieces between single space characters, empty pieces kept
RECURSIVE SplitOnSpace(_)
SplitOnSpace(s) ==
  IF \E i \in 1..Len(s) : CharAt(s, i) = " "
    THEN LET i == CHOOSE k \in 1..Len(s) :
                    /\ CharAt(s, k) = " "
                    /\ \A j \in 1..(k - 1) : CharAt(s, j) # " "
         IN  <<SubSeq(s, 1, i - 1)>> \o SplitOnSpace(SubSeq(s, i + 1, Len(s)))
    ELSE <<s>>

Substring(s, n) == SubSeq(s, 1, Min(Len(s), n))

(***************************************************************************)
(* JSON.parse on the grammar: whitespace, integers, strings without        *)
(* escapes, null/true/false, arrays and objects.  A parsed value is the    *)
(* record [t, n, s]; the elements of a top-level array are kept in elems.  *)
(***************************************************************************)
Num(n) == [t |-> "num", n |-> n, s |-> ""]
Str(s) == [t |-> "str", n |-> 0, s |-> s]
JNull == [t |-> "null", n |-> 0, s |-> ""]
JBool(b) == [t |-> "bool", n |-> IF b THEN 1 ELSE 0, s |-> ""]
JArr == [t |-> "arr", n |-> 0, s |-> ""]
JObj == [t |-> "obj", n |-> 0, s |-> ""]

Digits == "0123456789"
IsDigit(c) == \E d \in 1..10 : CharAt(Digits, d) = c
DigitVal(c) == (CHOOSE d \in 1..10 : CharAt(Digits, d) = c) - 1
IsWs(c) == c \in {" ", "\n", "\t", "\r"}

ParseFail == [ok |-> FALSE, val |-> JNull, elems |-> <<>>, next |-> 0]
ParseOk(v, es, nx) == [ok |-> TRUE, val |-> v, elems |-> es, next |-> nx]

RECURSIVE SkipWs(_, _)
SkipWs(s, i) == IF IsWs(CharAt(s, i)) THEN SkipWs(s, i + 1) ELSE i

RECURSIVE ParseDigits(_, _, _)
ParseDigits(s, i, acc) ==
  IF IsDigit(CharAt(s, i))
    THEN ParseDigits(s, i + 1, 10 * acc + DigitVal(CharAt(s, i)))
    ELSE [n |-> acc, next |-> i]

ParseNumber(s, i) ==
  LET neg == CharAt(s, i) = "-"
      j == IF neg THEN i + 1 ELSE i
      d == ParseDigits(s, j, 0)
  IN  IF ~IsDigit(CharAt(s, j)) THEN ParseFail
      ELSE IF CharAt(s, j) = "0" /\ IsDigit(CharAt(s, j + 1)) THEN ParseFail
      ELSE IF CharAt(s, d.next) \in {".", "e", "E"} THEN ParseFail
      ELSE ParseOk(Num(IF neg THEN 0 - d.n ELSE d.n), <<>>, d.next)

ParseString(s, i) ==
  IF \E k \in (i + 1)..Len(s) : CharAt(s, k) = "\""
    THEN LET k == CHOOSE c \in (i + 1)..Len(s) :
                    /\ CharAt(s, c) = "\""
                    /\ \A j \in (i + 1)..(c - 1) : CharAt(s, j) # "\""
             body == SubSeq(s, i + 1, k - 1)
         IN  IF Includes(body, "\n") \/ Includes(body, "\t") THEN ParseFail
             ELSE ParseOk(Str(body), <<>>, k + 1)
    ELSE ParseFail

ParseLiteral(s, i, word, v) ==
  IF SubSeq(s, i, Min(Len(s), i + Len(word) - 1)) = word
    THEN ParseOk(v, <<>>, i + Len(word))
    ELSE ParseFail

RECURSIVE ParseValue(_, _), ParseElements(_, _, _), ParseMembers(_, _)
ParseValue(s, i) ==
  LET c == CharAt(s, i)
  IN  IF c = "[" THEN
        LET j == SkipWs(s, i + 1)
        IN  IF CharAt(s, j) = "]" THEN ParseOk(JArr, <<>>, j + 1)
            ELSE ParseElements(s, j, <<>>)
      ELSE IF c = "{" THEN
        LET j == SkipWs(s, i + 1)
        IN  IF CharAt(s, j) = "}" THEN ParseOk(JObj, <<>>, j + 1)
            ELSE ParseMembers(s, j)
      ELSE IF c = "\"" THEN ParseString(s, i)
      ELSE IF c = "-" \/ IsDigit(c) THEN ParseNumber(s, i)
      ELSE IF c = "n" THEN ParseLiteral(s, i, "null", JNull)
      ELSE IF c = "t" THEN ParseLiteral(s, i, "true", JBool(TRUE))
      ELSE IF c = "f" THEN ParseLiteral(s, i, "false", JBool(FALSE))
      ELSE ParseFail

ParseElements(s, i, acc) ==
  LET r == ParseValue(s, i)
  IN  IF ~r.ok THEN ParseFail
      ELSE LET j == SkipWs(s, r.next)
           IN  IF CharAt(s, j) = "," THEN ParseElements(s, SkipWs(s, j + 1), Append(acc, r.val))
               ELSE IF CharAt(s, j) = "]" THEN ParseOk(JArr, Append(acc, r.val), j + 1)
               ELSE ParseFail

ParseMembers(s, i) ==
  LET k == IF CharAt(s, i) = "\"" THEN ParseString(s, i) ELSE ParseFail
  IN  IF ~k.ok THEN ParseFail
      ELSE LET c == SkipWs(s, k.next)
           IN  IF CharAt(s, c) # ":" THEN ParseFail
               ELSE LET r == ParseValue(s, SkipWs(s, c + 1))
                    IN  IF ~r.ok THEN ParseFail
                        ELSE LET j == SkipWs(s, r.next)
                             IN  IF CharAt(s, j) = "," THEN ParseMembers(s, SkipWs(s, j + 1))
                                 ELSE IF CharAt(s, j) = "}" THEN ParseOk(JObj, <<>>, j + 1)
                                 ELSE ParseFail

\* JSON.parse(text): ok = FALSE stands for the SyntaxError it throws
JSONParse(text) ==
  LET r == ParseValue(text, SkipWs(text, 1))
  IN  IF r.ok /\ SkipWs(text, r.next) = Len(text) + 1 THEN r ELSE ParseFail

IsArray(r) == r.val.t = "arr"

(***************************************************************************)
(* A chat.completions response as seen through                             *)
(* response.choices[0]?.message.content                                    *)
(***************************************************************************)
Thrown == [kind |-> "throw", text |-> ""]
NoChoices == [kind |-> "nochoices", text |-> ""]
NullContent == [kind |-> "null", text |-> ""]
Text(s) == [kind |-> "text", text |-> s]

\* response.choices[0]?.message.content
ContentOf(resp) ==
  IF resp.kind = "nochoices" THEN [type |-> "undefined", s |-> ""]
  ELSE IF resp.kind = "null" THEN [type |-> "null", s |-> ""]
  ELSE [type |-> "string", s |-> resp.text]

\* JavaScript falsiness of a value that is a string, null or undefined
Falsy(c) == c.type \in {"undefined", "null"} \/ c.s = ""

(***************************************************************************)
(* Page selector: identifyRelevantPages                                    *)
(***************************************************************************)
DefaultPages == <<Num(1), Num(2), Num(3)>>

Returned(pages) == [threw |-> FALSE, error |-> "", pages |-> pages]
Threw(msg) == [threw |-> TRUE, error |-> msg, pages |-> <<>>]

\* variant: a try/catch around the whole body, so that a failed request or an
\* empty response also yields the default
IdentifyRelevantPagesCatchAll(resp) ==
  IF resp.kind = "throw" THEN Returned(DefaultPages)
  ELSE LET result == ContentOf(resp)
       IN  IF Falsy(result) THEN Returned(DefaultPages)
           ELSE LET parsed == JSONParse(result.s)
                IN  IF ~parsed.ok THEN Returned(DefaultPages)
                    ELSE IF IsArray(parsed) THEN Returned(parsed.elems)
                    ELSE Returned(DefaultPages)

\* variant: JSON.parse outside the try, its SyntaxError propagates
IdentifyRelevantPagesNoCatch(resp) ==
  IF resp.kind = "throw" THEN Threw(ServiceErrorMessage)
  ELSE LET result == ContentOf(resp)
       IN  IF Falsy(result) THEN Threw(NoResponseMessage)
           ELSE LET parsed == JSONParse(result.s)
                IN  IF ~parsed.ok THEN Threw("Unexpected token in JSON")
                    ELSE IF IsArray(parsed) THEN Returned(parsed.elems)
                    ELSE Returned(DefaultPages)

\* text.match(/\[[\s\S]*\]/): from the first "[" to the last "]", "" if none
ExtractArray(text) ==
  LET opens == {i \in 1..Len(text) : CharAt(text, i) = "["}
      closes == {i \in 1..Len(text) : CharAt(text, i) = "]"}
  IN  IF \E i \in opens, j \in closes : i < j
        THEN SubSeq(text, CHOOSE i \in opens : \A k \in opens : i <= k,
                          CHOOSE j \in closes : \A k \in closes : k <= j)
        ELSE ""

\* variant: a second decode of the embedded array before the default, as
\* generateDocumentSummary does for an embedded object
IdentifyRelevantPagesExtracting(resp) ==
  IF resp.kind = "throw" THEN Threw(ServiceErrorMessage)
  ELSE LET result == ContentOf(resp)
       IN  IF Falsy(result) THEN Threw(NoResponseMessage)
           ELSE LET parsed == JSONParse(result.s)
                    embedded == JSONParse(ExtractArray(result.s))
                IN  IF ~parsed.ok
                      THEN (IF embedded.ok /\ IsArray(embedded)
                              THEN Returned(embedded.elems) ELSE Returned(DefaultPages))
                    ELSE IF IsArray(parsed) THEN Returned(parsed.elems)
                    ELSE Returned(DefaultPages)

IdentifyRelevantPages(resp) ==
  IF resp.kind = "throw" THEN Threw(ServiceErrorMessage)
  ELSE LET result == ContentOf(resp)
       IN  IF Falsy(result) THEN Threw(NoResponseMessage)
           ELSE LET parsed == JSONParse(result.s)
                IN  IF ~parsed.ok THEN Returned(DefaultPages)
                    ELSE IF IsArray(parsed) THEN Returned(parsed.elems)
                    ELSE Returned(DefaultPages)

(***************************************************************************)
(* Evidence aggregation: the body of processQuery between the two awaits   *)
(***************************************************************************)
\* Array.prototype.includes / Set membership: SameValueZero; arrays and
\* objects are compared by identity, and each parsed one is a fresh object
SameValueZero(a, b) == a.t \in {"num", "str", "null", "bool"} /\ a = b

ListIncludes(list, v) == \E i \in 1..Len(list) : SameValueZero(list[i], v)

\* this.documents.find(p => p.pageNbr === pageNbr): index of the page, 0 if none
FindPage(docs, v) ==
  IF \E i \in 1..Len(docs) : Num(docs[i].pageNbr) = v
    THEN CHOOSE i \in 1..Len(docs) :
           /\ Num(docs[i].pageNbr) = v
           /\ \A j \in 1..(i - 1) : Num(docs[j].pageNbr) # v
    ELSE 0

\* relevance values are the quotients raw score / keyword count, kept as
\* reduced fractions; 1.0 is 1/1
RECURSIVE GCD(_, _)
GCD(a, b) == IF b = 0 THEN a ELSE GCD(b, a % b)

Quotient(a, b) == LET g == GCD(a, b) IN [num |-> a \div g, den |-> b \div g]
One == [num |-> 1, den |-> 1]

\* b.relevance - a.relevance, as a sign
Compare(a, b) ==
  LET d == b.relevance.num * a.relevance.den - a.relevance.num * b.relevance.den
  IN  IF d > 0 THEN 1 ELSE IF d < 0 THEN -1 ELSE 0

\* an evidence item; ord and origin are history fields (position and path of
\* discovery) that the program does not store
Item(nbr, excerpt, rel, ord, origin) ==
  [pageNbr |-> nbr, content |-> excerpt, relevance |-> rel, ord |-> ord, origin |-> origin]

Slice(seq, n) == SubSeq(seq, 1, Min(Len(seq), n))

\* variant: the candidates' excerpts cut at the scan's excerpt length
RECURSIVE CandidateItemsShortExcerpt(_, _, _)
CandidateItemsShortExcerpt(nums, docs, acc) ==
  IF nums = <<>> THEN acc
  ELSE LET i == FindPage(docs, Head(nums))
       IN  CandidateItemsShortExcerpt(Tail(nums), docs,
             IF i # 0
               THEN Append(acc, Item(Head(nums).n, Substring(docs[i].content, ScannedExcerptLen),
                                     One, Len(acc) + 1, "triage"))
               ELSE acc)

RECURSIVE CandidateItems(_, _, _)
CandidateItems(nums, docs, acc) ==
  IF nums = <<>> THEN acc
  ELSE LET i == FindPage(docs, Head(nums))
       IN  CandidateItems(Tail(nums), docs,
             IF i # 0
               THEN Append(acc, Item(Head(nums).n, Substring(docs[i].content, CandidateExcerptLen),
                                     One, Len(acc) + 1, "triage"))
               ELSE acc)

RECURSIVE KeepLong(_)
KeepLong(words) ==
  IF words = <<>> THEN <<>>
  ELSE (IF Len(Head(words)) > MinKeywordLen THEN <<Head(words)>> ELSE <<>>)
         \o KeepLong(Tail(words))

Keywords(q) == KeepLong(SplitOnSpace(ToLowerCase(q)))

\* lowered: the page with contentLower, summaryLower and its tags lower-cased
Lowered(page) ==
  [content |-> ToLowerCase(page.content), summary |-> ToLowerCase(page.summary),
   tags |-> [t \in 1..Len(page.tags) |-> ToLowerCase(page.tags[t])]]

\* variant: the content weight of searchPages (3) in the scan
KeywordScoreContentThree(lowered, keyword) ==
    (IF Includes(lowered.content, keyword) THEN 3 ELSE 0)
  + (IF Includes(lowered.summary, keyword) THEN SummaryWeight ELSE 0)
  + (IF \E t \in 1..Len(lowered.tags) : Includes(lowered.tags[t], keyword)
       THEN TagWeight ELSE 0)

KeywordScore(lowered, keyword) ==
    (IF Includes(lowered.content, keyword) THEN ContentWeight ELSE 0)
  + (IF Includes(lowered.summary, keyword) THEN SummaryWeight ELSE 0)
  + (IF \E t \in 1..Len(lowered.tags) : Includes(lowered.tags[t], keyword)
       THEN TagWeight ELSE 0)

RECURSIVE SumScores(_, _)
SumScores(lowered, keywords) ==
  IF keywords = <<>> THEN 0
  ELSE KeywordScore(lowered, Head(keywords)) + SumScores(lowered, Tail(keywords))

ScanScore(page, keywords) == SumScores(Lowered(page), keywords)

\* variant: admission without a threshold on the raw score
AdmittedAnyScore(score, count) == count < EvidenceCap

\* variant: a page is admitted from a raw score of 2
AdmittedFromThreshold(score, count) == score >= AdmissionThreshold /\ count < EvidenceCap

\* variant: admission that does not look at the size of the evidence set
AdmittedWhenFull(score, count) == score > AdmissionThreshold

Admitted(score, count) == score > AdmissionThreshold /\ count < EvidenceCap

\* relevanceScore / keywords.length; a denominator of 0 stands for the
\* non-finite quotients of JavaScript (0 / 0 is NaN, x / 0 is Infinity)
ScanRelevance(score, keywords) ==
  IF Len(keywords) = 0 THEN [num |-> score, den |-> 0]
  ELSE Quotient(score, Len(keywords))

\* variant: the scan skips only the numbers that became candidates
RECURSIVE ScanPagesSkipCandidates(_, _, _, _)
ScanPagesSkipCandidates(docs, nums, keywords, acc) ==
  IF docs = <<>> THEN acc
  ELSE LET page == Head(docs)
           score == ScanScore(page, keywords)
       IN  ScanPagesSkipCandidates(Tail(docs), nums, keywords,
             IF ListIncludes(Slice(nums, CandidateCap), Num(page.pageNbr)) THEN acc
             ELSE IF Admitted(score, Len(acc))
               THEN Append(acc, Item(page.pageNbr, Substring(page.content, ScannedExcerptLen),
                                     ScanRelevance(score, keywords), Len(acc) + 1, "scan"))
               ELSE acc)

RECURSIVE ScanPages(_, _, _, _)
ScanPages(docs, nums, keywords, acc) ==
  IF docs = <<>> THEN acc
  ELSE LET page == Head(docs)
           score == ScanScore(page, keywords)
       IN  ScanPages(Tail(docs), nums, keywords,
             IF ListIncludes(nums, Num(page.pageNbr)) THEN acc
             ELSE IF Admitted(score, Len(acc))
               THEN Append(acc, Item(page.pageNbr, Substring(page.content, ScannedExcerptLen),
                                     ScanRelevance(score, keywords), Len(acc) + 1, "scan"))
               ELSE acc)

\* sources.sort((a, b) => b.relevance - a.relevance): a stable sort; an item
\* goes behind every item that the comparator does not order after it
\* variant: a sort that is not stable (an item goes ahead of its equals)
RECURSIVE InsertSortedUnstable(_, _)
InsertSortedUnstable(sorted, x) ==
  IF sorted = <<>> THEN <<x>>
  ELSE IF Compare(Head(sorted), x) >= 0 THEN <<x>> \o sorted
  ELSE <<Head(sorted)>> \o InsertSortedUnstable(Tail(sorted), x)

RECURSIVE InsertSorted(_, _)
InsertSorted(sorted, x) ==
  IF sorted = <<>> THEN <<x>>
  ELSE IF Compare(Head(sorted), x) > 0 THEN <<x>> \o sorted
  ELSE <<Head(sorted)>> \o InsertSorted(Tail(sorted), x)

RECURSIVE SortSources(_, _)
SortSources(items, acc) ==
  IF items = <<>> THEN acc
  ELSE SortSources(Tail(items), InsertSorted(acc, Head(items)))

\* variant: the keyword scan runs ahead of the triage candidates
AggregatedScanFirst(docs, q, nums) ==
  SortSources(CandidateItems(Slice(nums, CandidateCap), docs,
                             ScanPages(docs, nums, Keywords(q), <<>>)), <<>>)

Aggregated(docs, q, nums) ==
  SortSources(ScanPages(docs, nums, Keywords(q),
                        CandidateItems(Slice(nums, CandidateCap), docs, <<>>)), <<>>)

\* the pushes and the sort of processQuery on the sources array it holds
AggregatedOnto(acc, docs, q, nums) ==
  SortSources(ScanPages(docs, nums, Keywords(q),
                        CandidateItems(Slice(nums, CandidateCap), docs, acc)), <<>>)

\* variant: sources kept in a field of the agent and not cleared by a call
FreshSourcesKept(prior) == prior

\* const sources = []: every call starts on an array of its own; prior is the
\* array that the agent's preceding invocation holds
FreshSources(prior) == <<>>

(***************************************************************************)
(* The search_pages tool: searchPages and JSON.stringify of its result     *)
(***************************************************************************)
\* variant: the keyword compared as it was passed, without toLowerCase()
SearchKeywordScoreCaseSensitive(lowered, keyword) ==
    (IF Includes(lowered.content, keyword) THEN SearchContentWeight ELSE 0)
  + (IF Includes(lowered.summary, keyword) THEN SearchSummaryWeight ELSE 0)
  + (IF \E t \in 1..Len(lowered.tags) : Includes(lowered.tags[t], keyword)
       THEN SearchTagWeight ELSE 0)

\* the body of keywords.forEach
SearchKeywordScore(lowered, keyword) ==
  LET keywordLower == ToLowerCase(keyword)
  IN    (IF Includes(lowered.content, keywordLower) THEN SearchContentWeight ELSE 0)
      + (IF Includes(lowered.summary, keywordLower) THEN SearchSummaryWeight ELSE 0)
      + (IF \E t \in 1..Len(lowered.tags) : Includes(lowered.tags[t], keywordLower)
           THEN SearchTagWeight ELSE 0)

RECURSIVE SearchRelevance(_, _)
SearchRelevance(lowered, keywords) ==
  IF keywords = <<>> THEN 0
  ELSE SearchKeywordScore(lowered, Head(keywords)) + SearchRelevance(lowered, Tail(keywords))

\* this.documents.map(page => ...): one entry per page; idx is a history field
\* (the position of the page in the corpus)
RECURSIVE Scored(_, _, _)
Scored(docs, keywords, from) ==
  IF docs = <<>> THEN <<>>
  ELSE <<[pageNbr |-> Head(docs).pageNbr,
          relevance |-> SearchRelevance(Lowered(Head(docs)), keywords),
          summary |-> Head(docs).summary,
          idx |-> from]>>
       \o Scored(Tail(docs), keywords, from + 1)

\* .filter(result => result.relevance > 0)
RECURSIVE Positive(_)
Positive(entries) ==
  IF entries = <<>> THEN <<>>
  ELSE (IF Head(entries).relevance > 0 THEN <<Head(entries)>> ELSE <<>>)
         \o Positive(Tail(entries))

\* .sort((a, b) => b.relevance - a.relevance), a stable sort
\* variant: a sort that puts an entry ahead of those with an equal score
RECURSIVE InsertByRelevanceUnstable(_, _)
InsertByRelevanceUnstable(sorted, x) ==
  IF sorted = <<>> THEN <<x>>
  ELSE IF x.relevance - Head(sorted).relevance >= 0 THEN <<x>> \o sorted
  ELSE <<Head(sorted)>> \o InsertByRelevanceUnstable(Tail(sorted), x)

RECURSIVE InsertByRelevance(_, _)
InsertByRelevance(sorted, x) ==
  IF sorted = <<>> THEN <<x>>
  ELSE IF x.relevance - Head(sorted).relevance > 0 THEN <<x>> \o sorted
  ELSE <<Head(sorted)>> \o InsertByRelevance(Tail(sorted), x)

RECURSIVE SortByRelevance(_, _)
SortByRelevance(entries, acc) ==
  IF entries = <<>> THEN acc
  ELSE SortByRelevance(Tail(entries), InsertByRelevance(acc, Head(entries)))

SearchPages(docs, keywords) ==
  Slice(SortByRelevance(Positive(Scored(docs, keywords, 1)), <<>>), SearchCap)

\* JSON.stringify of a non-negative integer
RECURSIVE ToDecimal(_)
ToDecimal(n) ==
  IF n < 10 THEN CharAt(Digits, n + 1)
  ELSE ToDecimal(n \div 10) \o CharAt(Digits, (n % 10) + 1)

\* JSON.stringify of a string: quotes around it, the quote and the backslash
\* escaped (the page texts hold no control characters)
RECURSIVE Escaped(_)
Escaped(s) ==
  IF Len(s) = 0 THEN ""
  ELSE IF Len(s) = 1 THEN (IF s \in {"\"", "\\"} THEN "\\" \o s ELSE s)
  ELSE LET h == Len(s) \div 2
       IN  Escaped(SubSeq(s, 1, h)) \o Escaped(SubSeq(s, h + 1, Len(s)))

Quoted(s) == "\"" \o Escaped(s) \o "\""

\* JSON.stringify(results): the own properties of each result, in the order
\* of the object literal
RECURSIVE StringifyEntries(_)
StringifyEntries(entries) ==
  IF entries = <<>> THEN ""
  ELSE "{\"pageNbr\":" \o ToDecimal(Head(entries).pageNbr)
       \o ",\"relevance\":" \o ToDecimal(Head(entries).relevance)
       \o ",\"summary\":" \o Quoted(Head(entries).summary) \o "}"
       \o (IF Tail(entries) = <<>> THEN "" ELSE ",")
       \o StringifyEntries(Tail(entries))

StringifyResults(entries) == "[" \o StringifyEntries(entries) \o "]"

(***************************************************************************)
(* Result assembly                                                         *)
(***************************************************************************)
\* Array.from(new Set(list)): first occurrences, in order
\* variant: Array.from(list), no Set
DedupeNone(list, acc) == acc \o list

RECURSIVE Dedupe(_, _)
Dedupe(list, acc) ==
  IF list = <<>> THEN acc
  ELSE Dedupe(Tail(list), IF ListIncludes(acc, Head(list)) THEN acc ELSE Append(acc, Head(list)))

PageNbrs(items) == [i \in 1..Len(items) |-> Num(items[i].pageNbr)]

\* the items in the order they were pushed
ByDiscovery(items) ==
  [k \in 1..Len(items) |-> items[CHOOSE i \in 1..Len(items) : items[i].ord = k]]

\* variant: the page numbers taken before the in-place sort
RelevantPagesUnsorted(nums, items) == Dedupe(nums \o PageNbrs(ByDiscovery(items)), <<>>)

RelevantPages(nums, items) == Dedupe(nums \o PageNbrs(items), <<>>)

\* variant: ?? in place of ||, an empty string is kept as the answer
AnswerOfNullish(content) ==
  IF content.type \in {"undefined", "null"} THEN FallbackAnswer ELSE content.s

AnswerOf(content) == IF Falsy(content) THEN FallbackAnswer ELSE content.s

NoResult == [answer |-> "", relevantPages |-> <<>>, sources |-> <<>>, steps |-> -1]

QueryAgentResult(resp, nums, items) ==
  [answer |-> AnswerOf(ContentOf(resp)),
   relevantPages |-> RelevantPages(nums, items),
   sources |-> Slice(items, SourcesCap),
   steps |-> 0]

(***************************************************************************)
(* Inputs: page collections, queries and service responses                 *)
(***************************************************************************)
Page(nbr, content, summary, tags, references) ==
  [pageNbr |-> nbr, content |-> content, summary |-> summary, tags |-> tags,
   references |-> references]

\* page bodies: what a page says, whatever its number
SummaryHit ==
  [content |-> "Employment overview.",
   summary |-> "Overview of the termination policy, see 3.4.1.",
   tags |-> <<"hr">>, references |-> <<"3.4.1">>]
Unrelated ==
  [content |-> "Public holidays and office hours.",
   summary |-> "Lists the public holidays.",
   tags |-> <<"calendar">>, references |-> <<>>]
ContentOnly ==
  [content |-> "Section 3.4.1: Termination requires thirty days notice.",
   summary |-> "Notice periods for leaving staff.",
   tags |-> <<"notice">>, references |-> <<>>]
ContentSummary ==
  [content |-> "Grounds for termination.",
   summary |-> "Termination grounds.",
   tags |-> <<"grounds">>, references |-> <<>>]
FullHit ==
  [content |-> "Termination policy in full.",
   summary |-> "The termination policy.",
   tags |-> <<"Termination", "policy">>, references |-> <<"3.4.1">>]

\* the bodies that single documents are drawn from
Bodies == {SummaryHit, ContentOnly, ContentSummary, FullHit}

Numbered(bodies) ==
  [i \in 1..Len(bodies) |->
     Page(i, bodies[i].content, bodies[i].summary, bodies[i].tags, bodies[i].references)]

\* one document of up to MaxPages pages, numbered from 1
SingleDocuments == UNION {{Numbered(b) : b \in [1..k -> Bodies]} : k \in 0..MaxPages}

\* a long document: more pages than either cap
LongDocument ==
  Numbered(<<FullHit, ContentSummary, Unrelated, FullHit, ContentOnly, ContentSummary,
             FullHit, FullHit, ContentSummary, FullHit, FullHit, ContentSummary>>)

\* allDocs.flatMap(doc => doc.pages) over two documents: page numbers repeat
TwoDocuments ==
  Numbered(<<ContentSummary, FullHit>>) \o Numbered(<<FullHit, Unrelated, FullHit>>)

RECURSIVE Repeat(_, _)
Repeat(s, n) == IF n = 0 THEN "" ELSE s \o Repeat(s, n - 1)

\* a page whose content is longer than either excerpt length (1296 characters)
LongPolicy ==
  [content |-> Repeat("Termination policy clause. ", 48),
   summary |-> "The termination policy.",
   tags |-> <<"policy">>, references |-> <<>>]

\* a document of long pages, more of them than either cap
LongPages == Numbered([i \in 1..12 |-> LongPolicy])

\* the three-page document of the termination-policy scenario
ScenarioCorpus == Numbered(<<SummaryHit, Unrelated, ContentOnly>>)

Corpora == SingleDocuments \cup {ScenarioCorpus, LongDocument, TwoDocuments, LongPages}

ScenarioQuery == "What is the termination policy?"

Queries == {ScenarioQuery, "termination", "Termination  policy", "is it ok"}

MalformedTexts == {"Pages 4 and 7", "[1, 2"}
EmbeddedArrayTexts == {"The relevant pages are [4, 7]", "~~~json\n[4, 7]\n~~~"}
NonArrayTexts == {"{\"pages\": [1, 2]}", "7"}
ArrayTexts ==
  {"[1]", " [3, 1]\n", "[2, 2, 1]", "[2, 9]", "[]", "[6, 5, 4, 3, 2, 1]",
   "[\"1\", null, 2]"}

ResponseTexts == MalformedTexts \cup EmbeddedArrayTexts \cup NonArrayTexts \cup ArrayTexts

ClassificationResponses ==
  {Thrown, NoChoices, NullContent, Text("")} \cup {Text(t) : t \in ResponseTexts}

CompletionResponses ==
  {Thrown, NoChoices, NullContent, Text(""), Text("The policy is on page 1.")}

\* the page collections and the keyword arguments of the search_pages tool
ToolCorpora == SingleDocuments \cup {ScenarioCorpus, LongDocument, TwoDocuments}

KeywordLists ==
  {<<>>, <<"termination">>, <<"Termination", "POLICY">>, <<"policy", "policy">>,
   <<"notice", "holidays">>, <<"">>, <<"zebra">>, <<"3.4.1", "hr">>}

(***************************************************************************)
(* State                                                                   *)
(***************************************************************************)
VARIABLES
  documents,            \* the page collection of the query
  query,                \* input.query
  via,                  \* "none", "router" (queryDocument) or "agent" (processQuery called directly)
  pc,                   \* "start", "triage", "aggregate", "synthesis", "done", "failed"
  triageResp,           \* what the classification service answered
  relevantPageNumbers,  \* processQuery's local of that name
  sources,              \* processQuery's local of that name
  complResp,            \* what the completion service answered
  result,               \* the QueryAgentResult handed to the caller
  error,                \* the message of the error handed to the caller
  classCalls,           \* classification requests issued
  complCalls,           \* completion requests issued
  toolArgs,             \* args.keywords of a search_pages tool call
  searchOut,            \* what searchPages computed for the tool call
  scanOut,              \* the raw scores of processQuery's keyword scan for the same keywords
  calls,                \* the processQuery invocations running on one agent, by invocation
  documentStore,        \* the keys of the Map of that name
  initialized,          \* the module variable of that name
  initError,            \* initError is not null
  initPromise,          \* 0 for null, else the number of the pending promise
  initRun,              \* where the running initializeFromDisk stands, and its readdir entries
  settled,              \* the promises of ensureInitialized that have settled
  dumpsDir,             \* the directory temp-dumps exists
  tempDumps,            \* per document id: "none", "dir" (directory only) or "file"
                        \* (directory with uploaded-document.json)
  clients,              \* the requests in flight, by client
  initStarts,           \* history: initializeFromDisk calls in this process
  earlyAccess,          \* history: a caller touched the Map before initializeFromDisk returned
  deleted,              \* history: ids whose deleteDocumentById has returned
  issued                \* history: ids generateDocumentId has handed out

toolVars == <<toolArgs, searchOut, scanOut>>

storeVars == <<documentStore, initialized, initError, initPromise, initRun, settled,
               dumpsDir, tempDumps, clients, initStarts, earlyAccess, deleted, issued>>

agentVars == <<documents, query, via, pc, triageResp, relevantPageNumbers, sources,
               complResp, result, error, classCalls, complCalls, toolVars, calls>>

vars == <<agentVars, storeVars>>

NoResponse == [kind |-> "none", text |-> ""]

\* no tool call has been made
NoOutput == [scored |-> <<>>, results |-> <<>>, text |-> ""]
NoScan == [done |-> FALSE, raw |-> <<>>]

ToolsIdle ==
  /\ toolArgs = <<>>
  /\ searchOut = NoOutput
  /\ scanOut = NoScan

\* the locals of one processQuery invocation that has not started yet
\* (overlap is a history field: another invocation was in flight when this one
\* started)
Call(q) ==
  [pc |-> "start", query |-> q, triageResp |-> NoResponse, relevantPageNumbers |-> <<>>,
   keywords |-> <<>>, sources |-> <<>>, complResp |-> NoResponse, result |-> NoResult,
   error |-> "", overlap |-> FALSE]

Invocations == 1..MaxCalls

CallsIdle == calls = [i \in Invocations |-> Call("")]

DocIds == 1..MaxDocs
Clients == 1..MaxClients

\* no request in flight
NoRequest == [op |-> "none", id |-> 0, pc |-> "idle", awaits |-> 0]

\* initializeFromDisk has not been called
NotRunning == [pos |-> "unstarted", entries |-> {}]

\* a process that has just been started: the module-level state of
\* pdf-processor.ts
FreshProcess ==
  /\ documentStore = {}
  /\ initialized = FALSE
  /\ initError = FALSE
  /\ initPromise = 0
  /\ initRun = NotRunning
  /\ settled = {}
  /\ clients = [c \in Clients |-> NoRequest]
  /\ initStarts = 0
  /\ earlyAccess = FALSE

\* the document store is not in use
StoreIdle ==
  /\ FreshProcess
  /\ dumpsDir = FALSE
  /\ tempDumps = [d \in DocIds |-> "none"]
  /\ deleted = {}
  /\ issued = {}

Init ==
  /\ documents \in Corpora
  /\ query \in Queries
  /\ via = "none"
  /\ pc = "start"
  /\ triageResp = NoResponse
  /\ relevantPageNumbers = <<>>
  /\ sources = <<>>
  /\ complResp = NoResponse
  /\ result = NoResult
  /\ error = ""
  /\ classCalls = 0
  /\ complCalls = 0
  /\ ToolsIdle
  /\ CallsIdle
  /\ StoreIdle

(***************************************************************************)
(* Operations.  OPENAI_API_KEY is taken to be set: getClient() and the     *)
(* OpenAI constructor of processQuery do not throw.                        *)
(***************************************************************************)
\* variant: the router without its guard
EmptyCorpusUnchecked(docs) == FALSE

\* router.ts: if (documents.length === 0) throw ...
EmptyCorpus(docs) == Len(docs) = 0

\* router.ts: catch (error) { throw new Error(`Query processing failed: ${error}`) }
Wrapped(msg) == "Query processing failed: Error: " \o msg

\* the error as the caller of the entry point sees it
Surfaced(entry, msg) == IF entry = "router" THEN Wrapped(msg) ELSE msg

\* queryDocument: resolve the pages, reject an empty collection, otherwise
\* construct the agent and run processQuery up to its first await
QueryDocument ==
  /\ pc = "start"
  /\ via' = "router"
  /\ IF EmptyCorpus(documents)
       THEN /\ pc' = "failed"
            /\ error' = Wrapped(EmptyCorpusMessage)
            /\ UNCHANGED classCalls
       ELSE /\ pc' = "triage"
            /\ classCalls' = classCalls + 1
            /\ UNCHANGED error
  /\ UNCHANGED <<documents, query, triageResp, relevantPageNumbers, sources,
                 complResp, result, complCalls>>
  /\ UNCHANGED <<toolVars, calls, storeVars>>

\* new ForagerQueryAgent(documents).processQuery(query) by a caller other than
\* the router, up to the first await: identifyRelevantPages issues its request
ProcessQuery ==
  /\ pc = "start"
  /\ via' = "agent"
  /\ pc' = "triage"
  /\ classCalls' = classCalls + 1
  /\ UNCHANGED <<documents, query, triageResp, relevantPageNumbers, sources,
                 complResp, result, error, complCalls>>
  /\ UNCHANGED <<toolVars, calls, storeVars>>

\* variant: a classification request that failed is issued once more
ClassificationReturnsRetrying ==
  /\ pc = "triage"
  /\ \E resp \in ClassificationResponses :
       LET r == IdentifyRelevantPages(resp)
       IN  /\ triageResp' = resp
           /\ IF r.threw /\ classCalls < 2
                THEN /\ classCalls' = classCalls + 1
                     /\ UNCHANGED <<pc, error, relevantPageNumbers>>
                ELSE IF r.threw
                THEN /\ pc' = "failed"
                     /\ error' = Surfaced(via, r.error)
                     /\ UNCHANGED <<relevantPageNumbers, classCalls>>
                ELSE /\ pc' = "aggregate"
                     /\ relevantPageNumbers' = r.pages
                     /\ UNCHANGED <<error, classCalls>>
  /\ UNCHANGED <<documents, query, via, sources, complResp, result, complCalls>>
  /\ UNCHANGED <<toolVars, calls, storeVars>>

\* the classification request settles: the rest of identifyRelevantPages
ClassificationReturns ==
  /\ pc = "triage"
  /\ \E resp \in ClassificationResponses :
       LET r == IdentifyRelevantPages(resp)
       IN  /\ triageResp' = resp
           /\ IF r.threw
                THEN /\ pc' = "failed"
                     /\ error' = Surfaced(via, r.error)
                     /\ UNCHANGED relevantPageNumbers
                ELSE /\ pc' = "aggregate"
                     /\ relevantPageNumbers' = r.pages
                     /\ UNCHANGED error
  /\ UNCHANGED <<documents, query, via, sources, complResp, result, classCalls, complCalls>>
  /\ UNCHANGED <<toolVars, calls, storeVars>>

\* processQuery from the return of identifyRelevantPages to the second await:
\* candidates, keyword scan, sort, and the completion request
Aggregate ==
  /\ pc = "aggregate"
  /\ sources' = Aggregated(documents, query, relevantPageNumbers)
  /\ complCalls' = complCalls + 1
  /\ pc' = "synthesis"
  /\ UNCHANGED <<documents, query, via, triageResp, relevantPageNumbers, complResp,
                 result, error, classCalls>>
  /\ UNCHANGED <<toolVars, calls, storeVars>>

\* router.ts: .output(z.object({answer: z.string(), relevantPages:
\* z.array(z.number()), sources: ...})): what the procedure returns is parsed
\* against the schema after the resolver has returned, outside its try/catch.
\* Of a result of processQuery only relevantPages can hold a non-number.
OutputValid(res) ==
  \A i \in 1..Len(res.relevantPages) : res.relevantPages[i].t = "num"

\* variant: a catch around the completion call that answers with the fallback
CompletionReturnsSwallowing ==
  /\ pc = "synthesis"
  /\ \E resp \in CompletionResponses :
       /\ complResp' = resp
       /\ pc' = "done"
       /\ result' = QueryAgentResult(IF resp.kind = "throw" THEN NoChoices ELSE resp,
                                     relevantPageNumbers, sources)
       /\ UNCHANGED error
  /\ UNCHANGED <<documents, query, via, triageResp, relevantPageNumbers, sources,
                 classCalls, complCalls>>
  /\ UNCHANGED <<toolVars, calls, storeVars>>

\* the completion request settles: the answer and the returned object, and on
\* the router's path the validation of the output
CompletionReturns ==
  /\ pc = "synthesis"
  /\ \E resp \in CompletionResponses :
       /\ complResp' = resp
       /\ IF resp.kind = "throw"
            THEN /\ pc' = "failed"
                 /\ error' = Surfaced(via, ServiceErrorMessage)
                 /\ UNCHANGED result
            ELSE IF via = "router"
                    /\ ~OutputValid(QueryAgentResult(resp, relevantPageNumbers, sources))
            THEN /\ pc' = "failed"
                 /\ error' = "Output validation failed"
                 /\ UNCHANGED result
            ELSE /\ pc' = "done"
                 /\ result' = QueryAgentResult(resp, relevantPageNumbers, sources)
                 /\ UNCHANGED error
  /\ UNCHANGED <<documents, query, via, triageResp, relevantPageNumbers, sources,
                 classCalls, complCalls>>
  /\ UNCHANGED <<toolVars, calls, storeVars>>

Next ==
  \/ QueryDocument
  \/ ProcessQuery
  \/ ClassificationReturns
  \/ Aggregate
  \/ CompletionReturns

Spec == Init /\ [][Next]_vars

TypeOK ==
  /\ pc \in {"start", "triage", "aggregate", "synthesis", "done", "failed"}
  /\ via \in {"none", "router", "agent"}
  /\ classCalls \in 0..1
  /\ complCalls \in 0..1
  /\ Len(sources) <= EvidenceCap

(***************************************************************************)
(* The search_pages tool and the scan's scorer on the same arguments       *)
(***************************************************************************)
\* the state of an agent on which processQuery has not been called
AgentIdle ==
  /\ via = "none"
  /\ pc = "start"
  /\ triageResp = NoResponse
  /\ relevantPageNumbers = <<>>
  /\ sources = <<>>
  /\ complResp = NoResponse
  /\ result = NoResult
  /\ error = ""
  /\ classCalls = 0
  /\ complCalls = 0

InitTools ==
  /\ documents \in ToolCorpora
  /\ toolArgs \in KeywordLists
  /\ searchOut = NoOutput
  /\ scanOut = NoScan
  /\ query = ""
  /\ AgentIdle
  /\ CallsIdle
  /\ StoreIdle

\* search_pages.execute(args): searchPages(args.keywords), then JSON.stringify
SearchPagesTool ==
  /\ searchOut = NoOutput
  /\ LET results == SearchPages(documents, toolArgs)
     IN  searchOut' = [scored |-> Scored(documents, toolArgs, 1),
                       results |-> results,
                       text |-> StringifyResults(results)]
  /\ UNCHANGED <<documents, query, via, pc, triageResp, relevantPageNumbers, sources,
                 complResp, result, error, classCalls, complCalls, toolArgs, scanOut, calls, storeVars>>

\* the scoring loop of processQuery's scan, run over every page with the
\* tool's keywords
ScanScores ==
  /\ ~scanOut.done
  /\ scanOut' = [done |-> TRUE,
                 raw |-> [j \in 1..Len(documents) |-> ScanScore(documents[j], toolArgs)]]
  /\ UNCHANGED <<documents, query, via, pc, triageResp, relevantPageNumbers, sources,
                 complResp, result, error, classCalls, complCalls, toolArgs, searchOut, calls, storeVars>>

NextTools == SearchPagesTool \/ ScanScores

SpecTools == InitTools /\ [][NextTools]_vars

(***************************************************************************)
(* Several processQuery invocations on one agent.  An invocation gives up  *)
(* control at its two awaits only; the step from the classification reply  *)
(* to the completion request is split in two here, which adds              *)
(* interleavings and removes none.                                         *)
(***************************************************************************)
\* what the stubbed services answer
StubResponses ==
  [classification |-> {Thrown, Text("[2, 2, 1]"), Text("Pages 4 and 7")},
   completion |-> {Thrown, Text("The policy is on page 1.")}]

SharedCorpora == {ScenarioCorpus, TwoDocuments}

InFlight(i) == calls[i].pc \in {"triage", "aggregate", "synthesis"}

\* processQuery up to its first await
Start(i) ==
  /\ calls[i].pc = "start"
  /\ calls' = [calls EXCEPT
       ![i].pc = "triage",
       ![i].sources = FreshSources(calls[IF i = 1 THEN MaxCalls ELSE i - 1].sources),
       ![i].overlap = \E j \in Invocations \ {i} : InFlight(j)]
  /\ UNCHANGED <<documents, query, via, pc, triageResp, relevantPageNumbers, sources,
                 complResp, result, error, classCalls, complCalls, toolVars, storeVars>>

\* the classification request of invocation i settles
ClassRet(i, resp) ==
  /\ calls[i].pc = "triage"
  /\ LET r == IdentifyRelevantPages(resp)
     IN  calls' = [calls EXCEPT
           ![i].triageResp = resp,
           ![i].pc = IF r.threw THEN "failed" ELSE "aggregate",
           ![i].error = IF r.threw THEN r.error ELSE "",
           ![i].relevantPageNumbers = IF r.threw THEN <<>> ELSE r.pages]
  /\ UNCHANGED <<documents, query, via, pc, triageResp, relevantPageNumbers, sources,
                 complResp, result, error, classCalls, complCalls, toolVars, storeVars>>

\* candidates, scan and sort of invocation i, and its completion request
Agg(i) ==
  /\ calls[i].pc = "aggregate"
  /\ calls' = [calls EXCEPT
       ![i].pc = "synthesis",
       ![i].keywords = Keywords(calls[i].query),
       ![i].sources = AggregatedOnto(calls[i].sources, documents, calls[i].query,
                                     calls[i].relevantPageNumbers)]
  /\ UNCHANGED <<documents, query, via, pc, triageResp, relevantPageNumbers, sources,
                 complResp, result, error, classCalls, complCalls, toolVars, storeVars>>

\* the completion request of invocation i settles
ComplRet(i, resp) ==
  /\ calls[i].pc = "synthesis"
  /\ calls' = [calls EXCEPT
       ![i].complResp = resp,
       ![i].pc = IF resp.kind = "throw" THEN "failed" ELSE "done",
       ![i].error = IF resp.kind = "throw" THEN ServiceErrorMessage ELSE "",
       ![i].result = IF resp.kind = "throw" THEN NoResult
                     ELSE QueryAgentResult(resp, calls[i].relevantPageNumbers, calls[i].sources)]
  /\ UNCHANGED <<documents, query, via, pc, triageResp, relevantPageNumbers, sources,
                 complResp, result, error, classCalls, complCalls, toolVars, storeVars>>

\* concurrent callers: any queries, any interleaving, any service answers
InitConc ==
  /\ documents \in SharedCorpora
  /\ calls \in [Invocations -> {Call(q) : q \in {ScenarioQuery, "termination"}}]
  /\ query = ""
  /\ AgentIdle
  /\ ToolsIdle
  /\ StoreIdle

NextConc ==
  \E i \in Invocations :
    \/ Start(i)
    \/ \E resp \in StubResponses.classification : ClassRet(i, resp)
    \/ Agg(i)
    \/ \E resp \in StubResponses.completion : ComplRet(i, resp)

SpecConc == InitConc /\ [][NextConc]_vars

\* one caller, the same query twice, the second call after the first has
\* settled; the stubs answer the second call as they answered the first
InitTwice ==
  /\ documents \in SharedCorpora \cup {<<>>, LongDocument}
  /\ \E q \in Queries \cup {"termination\tpolicy", "Grounds\nfor termination"} :
       calls = [i \in Invocations |-> Call(q)]
  /\ query = ""
  /\ AgentIdle
  /\ ToolsIdle
  /\ StoreIdle

NextTwice ==
  \/ Start(1)
  \/ \E resp \in StubResponses.classification : ClassRet(1, resp)
  \/ Agg(1)
  \/ \E resp \in StubResponses.completion : ComplRet(1, resp)
  \/ calls[1].pc \in {"done", "failed"} /\ Start(2)
  \/ ClassRet(2, calls[1].triageResp)
  \/ Agg(2)
  \/ ComplRet(2, calls[1].complResp)

SpecTwice == InitTwice /\ [][NextTwice]_vars

(***************************************************************************)
(* The document store of pdf-processor.ts: a Map filled from the dumps on  *)
(* disk on first use, and the requests that reach it.  JavaScript runs a   *)
(* handler without interruption up to its next await, so each action is    *)
(* the code between two awaits; the effect of a file-system call happens   *)
(* in the action of the await that waits for it.                           *)
(***************************************************************************)
\* the ids a client can have learnt: listed by getDocuments in this process
\* or in an earlier one
Exposed == documentStore \cup {d \in DocIds : tempDumps[d] # "none"}

\* variant: every caller that finds the store uninitialised starts
\* initializeFromDisk itself
EnsureInitializedEachCaller(c, op, id) ==
  /\ clients[c].pc = "idle"
  /\ IF initialized
       THEN /\ clients' = [clients EXCEPT ![c] = [op |-> op, id |-> id, pc |-> "awaiting",
                                                  awaits |-> 0]]
            /\ UNCHANGED <<initPromise, initRun, initStarts>>
       ELSE /\ initStarts' = initStarts + 1
            /\ initPromise' = initStarts + 1
            /\ initRun' = [pos |-> "stat", entries |-> {}]
            /\ clients' = [clients EXCEPT ![c] = [op |-> op, id |-> id, pc |-> "awaiting",
                                                  awaits |-> initStarts + 1]]
  /\ UNCHANGED <<documentStore, initialized, initError, settled, dumpsDir, tempDumps,
                 earlyAccess, deleted>>
  /\ UNCHANGED agentVars

\* op(id) is called and runs up to the await of ensureInitialized()
\* (initializeFromDisk runs up to its fs.stat inside the call); awaits is 0
\* when ensureInitialized returned at once
EnsureInitialized(c, op, id) ==
  /\ clients[c].pc = "idle"
  /\ IF initialized
       THEN /\ clients' = [clients EXCEPT ![c] = [op |-> op, id |-> id, pc |-> "awaiting",
                                                  awaits |-> 0]]
            /\ UNCHANGED <<initPromise, initRun, initStarts>>
       ELSE IF initPromise = 0
       THEN /\ initStarts' = initStarts + 1
            /\ initPromise' = initStarts + 1
            /\ initRun' = [pos |-> "stat", entries |-> {}]
            /\ clients' = [clients EXCEPT ![c] = [op |-> op, id |-> id, pc |-> "awaiting",
                                                  awaits |-> initStarts + 1]]
       ELSE /\ clients' = [clients EXCEPT ![c] = [op |-> op, id |-> id, pc |-> "awaiting",
                                                  awaits |-> initPromise]]
            /\ UNCHANGED <<initPromise, initRun, initStarts>>
  /\ UNCHANGED <<documentStore, initialized, initError, settled, dumpsDir, tempDumps,
                 earlyAccess, deleted>>
  /\ UNCHANGED agentVars

\* router.ts getDocumentDetail and queryDocument: getDocument(input.documentId)
GetDocumentCalled(c) ==
  /\ \E d \in DocIds : EnsureInitialized(c, "getDocument", d)
  /\ UNCHANGED issued

\* router.ts getDocuments and queryDocument: getAllDocuments()
GetAllDocumentsCalled(c) ==
  /\ EnsureInitialized(c, "getAllDocuments", 0)
  /\ UNCHANGED issued

\* router.ts deleteDocument: deleteDocumentById(input.documentId)
DeleteDocumentByIdCalled(c) ==
  /\ \E d \in Exposed : EnsureInitialized(c, "deleteDocumentById", d)
  /\ UNCHANGED issued

\* processPDFBuffer from generateDocumentId() to its call of storeDocument;
\* an upload whose OCR or page analysis throws never reaches the store
ProcessPDFBuffer(c) ==
  \E d \in DocIds \ issued :
    /\ EnsureInitialized(c, "storeDocument", d)
    /\ issued' = issued \cup {d}

\* initializeFromDisk after fs.stat(dumpsDir)
InitializeFromDiskStat ==
  /\ initRun.pos = "stat"
  /\ IF dumpsDir
       THEN /\ initRun' = [initRun EXCEPT !.pos = "readdir"]
            /\ UNCHANGED initialized
       ELSE /\ initialized' = TRUE
            /\ initRun' = [initRun EXCEPT !.pos = "returned"]
  /\ UNCHANGED <<documentStore, initError, initPromise, settled, dumpsDir, tempDumps, clients,
                 initStarts, earlyAccess, deleted, issued>>
  /\ UNCHANGED agentVars

\* initializeFromDisk after fs.readdir: the entries, or the catch of the
\* outer try
InitializeFromDiskReaddir ==
  /\ initRun.pos = "readdir"
  /\ \E ok \in BOOLEAN :
       IF ok
         THEN /\ initRun' = [pos |-> "load", entries |-> {d \in DocIds : tempDumps[d] # "none"}]
              /\ UNCHANGED <<initialized, initError>>
         ELSE /\ initError' = TRUE
              /\ initialized' = TRUE
              /\ initRun' = [initRun EXCEPT !.pos = "returned"]
  /\ UNCHANGED <<documentStore, initPromise, settled, dumpsDir, tempDumps, clients,
                 initStarts, earlyAccess, deleted, issued>>
  /\ UNCHANGED agentVars

\* initializeFromDisk: one turn of the loop over the entries, and the end
\* of the loop
InitializeFromDiskLoad ==
  /\ initRun.pos = "load"
  /\ IF initRun.entries = {}
       THEN /\ initialized' = TRUE
            /\ initRun' = [initRun EXCEPT !.pos = "returned"]
            /\ UNCHANGED documentStore
       ELSE \E d \in initRun.entries :
              /\ initRun' = [initRun EXCEPT !.entries = @ \ {d}]
              /\ documentStore' = IF tempDumps[d] = "file" /\ d \notin documentStore
                                    THEN documentStore \cup {d}
                                    ELSE documentStore
              /\ UNCHANGED initialized
  /\ UNCHANGED <<initError, initPromise, settled, dumpsDir, tempDumps, clients,
                 initStarts, earlyAccess, deleted, issued>>
  /\ UNCHANGED agentVars

\* .finally(() => { initPromise = null }), after which the promise that
\* the callers await settles
InitializeFromDiskFinally ==
  /\ initRun.pos = "returned"
  /\ settled' = settled \cup {initPromise}
  /\ initPromise' = 0
  /\ initRun' = [initRun EXCEPT !.pos = "finished"]
  /\ UNCHANGED <<documentStore, initialized, initError, dumpsDir, tempDumps, clients,
                 initStarts, earlyAccess, deleted, issued>>
  /\ UNCHANGED agentVars

\* await ensureInitialized() has returned to the caller
Resumed(c) ==
  /\ clients[c].pc = "awaiting"
  /\ clients[c].awaits = 0 \/ clients[c].awaits \in settled

\* a caller touches the Map
Touched ==
  earlyAccess' = (earlyAccess \/ initRun.pos \notin {"returned", "finished"})

\* storeDocument after its await: documentStore.set; processPDFBuffer goes
\* on to remove its temp files and to call observer.dumpToFiles
StoreDocument(c) ==
  /\ clients[c].op = "storeDocument"
  /\ Resumed(c)
  /\ documentStore' = documentStore \cup {clients[c].id}
  /\ Touched
  /\ clients' = [clients EXCEPT ![c].pc = "mkdir", ![c].awaits = 0]
  /\ UNCHANGED <<initialized, initError, initPromise, initRun, settled, dumpsDir, tempDumps,
                 initStarts, deleted, issued>>
  /\ UNCHANGED agentVars

\* getDocument after its await: documentStore.get(id) || null
GetDocument(c) ==
  /\ clients[c].op = "getDocument"
  /\ Resumed(c)
  /\ Touched
  /\ clients' = [clients EXCEPT ![c] = NoRequest]
  /\ UNCHANGED <<documentStore, initialized, initError, initPromise, initRun, settled,
                 dumpsDir, tempDumps, initStarts, deleted, issued>>
  /\ UNCHANGED agentVars

\* getAllDocuments after its await: Array.from(documentStore.values())
GetAllDocuments(c) ==
  /\ clients[c].op = "getAllDocuments"
  /\ Resumed(c)
  /\ Touched
  /\ clients' = [clients EXCEPT ![c] = NoRequest]
  /\ UNCHANGED <<documentStore, initialized, initError, initPromise, initRun, settled,
                 dumpsDir, tempDumps, initStarts, deleted, issued>>
  /\ UNCHANGED agentVars

\* deleteDocumentById after its await: documentStore.delete(id), then the
\* call of fs.rm
DeleteDocumentById(c) ==
  /\ clients[c].op = "deleteDocumentById"
  /\ Resumed(c)
  /\ documentStore' = documentStore \ {clients[c].id}
  /\ Touched
  /\ clients' = [clients EXCEPT ![c].pc = "rm", ![c].awaits = 0]
  /\ UNCHANGED <<initialized, initError, initPromise, initRun, settled, dumpsDir, tempDumps,
                 initStarts, deleted, issued>>
  /\ UNCHANGED agentVars

\* deleteDocumentById after fs.rm(dumpDir, {recursive, force}): it returns
RemoveDump(c) ==
  /\ clients[c].pc = "rm"
  /\ tempDumps' = [tempDumps EXCEPT ![clients[c].id] = "none"]
  /\ deleted' = deleted \cup {clients[c].id}
  /\ clients' = [clients EXCEPT ![c] = NoRequest]
  /\ UNCHANGED <<documentStore, initialized, initError, initPromise, initRun, settled,
                 dumpsDir, initStarts, earlyAccess, issued>>
  /\ UNCHANGED agentVars

\* dumpToFiles after fs.mkdir(dumpDir, {recursive: true})
DumpToFilesMkdir(c) ==
  /\ clients[c].pc = "mkdir"
  /\ dumpsDir' = TRUE
  /\ tempDumps' = [tempDumps EXCEPT ![clients[c].id] = IF @ = "none" THEN "dir" ELSE @]
  /\ clients' = [clients EXCEPT ![c].pc = "write"]
  /\ UNCHANGED <<documentStore, initialized, initError, initPromise, initRun, settled,
                 initStarts, earlyAccess, deleted, issued>>
  /\ UNCHANGED agentVars

\* dumpToFiles after its fs.writeFile calls, uploaded-document.json first:
\* written, or ENOENT caught by the catch of dumpToFiles when the directory
\* has gone; processPDFBuffer returns the document
DumpToFilesWrite(c) ==
  /\ clients[c].pc = "write"
  /\ IF tempDumps[clients[c].id] = "none"
       THEN /\ clients' = [clients EXCEPT ![c] = NoRequest]
            /\ UNCHANGED tempDumps
       ELSE /\ tempDumps' = [tempDumps EXCEPT ![clients[c].id] = "file"]
            /\ clients' = [clients EXCEPT ![c] = NoRequest]
  /\ UNCHANGED <<documentStore, initialized, initError, initPromise, initRun, settled,
                 dumpsDir, initStarts, earlyAccess, deleted, issued>>
  /\ UNCHANGED agentVars

\* the process is stopped and started again: the module state is new, the
\* disk is what it was
Restart ==
  /\ documentStore' = {}
  /\ initialized' = FALSE
  /\ initError' = FALSE
  /\ initPromise' = 0
  /\ initRun' = NotRunning
  /\ settled' = {}
  /\ clients' = [c \in Clients |-> NoRequest]
  /\ initStarts' = 0
  /\ earlyAccess' = FALSE
  /\ UNCHANGED <<dumpsDir, tempDumps, deleted, issued>>
  /\ UNCHANGED agentVars

\* a process starts over the dumps that earlier processes have left
InitStore ==
  /\ FreshProcess
  /\ dumpsDir \in BOOLEAN
  /\ tempDumps \in [DocIds -> {"none", "dir", "file"}]
  /\ (\E d \in DocIds : tempDumps[d] # "none") => dumpsDir
  /\ issued = {d \in DocIds : tempDumps[d] # "none"}
  /\ deleted = {}
  /\ documents = <<>>
  /\ query = ""
  /\ AgentIdle
  /\ ToolsIdle
  /\ CallsIdle

NextStore ==
  \/ \E c \in Clients :
       \/ GetDocumentCalled(c)
       \/ GetAllDocumentsCalled(c)
       \/ DeleteDocumentByIdCalled(c)
       \/ ProcessPDFBuffer(c)
       \/ StoreDocument(c)
       \/ GetDocument(c)
       \/ GetAllDocuments(c)
       \/ DeleteDocumentById(c)
       \/ RemoveDump(c)
       \/ DumpToFilesMkdir(c)
       \/ DumpToFilesWrite(c)
  \/ InitializeFromDiskStat
  \/ InitializeFromDiskReaddir
  \/ InitializeFromDiskLoad
  \/ InitializeFromDiskFinally
  \/ Restart

SpecStore == InitStore /\ [][NextStore]_vars

(***************************************************************************)
(* Properties                                                              *)
(***************************************************************************)
PagePresent(p) == \E i \in 1..Len(documents) : documents[i].pageNbr = p

InRelevantPages(p) ==
  \E i \in 1..Len(result.relevantPages) : result.relevantPages[i] = Num(p)

SourceNbrs(items) == [i \in 1..Len(items) |-> items[i].pageNbr]

\* the classification call threw or returned no text
TriageFailed == triageResp \in {Thrown, NoChoices, NullContent, Text("")}

\* the classification call returned text that is no JSON array
TriageUndecodable ==
  /\ triageResp.kind = "text"
  /\ triageResp.text \in MalformedTexts \cup EmbeddedArrayTexts \cup NonArrayTexts

\* C1 (as stated): given a triage failure (the classification call throws or
\* returns no text) processQuery still completes, no error reaches the caller,
\* and relevantPageNumbers includes each of pages 1, 2, 3 present in the corpus.
C1_TriageFailureDegrades ==
  TriageFailed =>
    /\ pc # "failed" \/ complResp = Thrown
    /\ pc = "done" => \A p \in 1..3 : PagePresent(p) => InRelevantPages(p)

\* C1 (amended): when the classification call throws or returns no text,
\* processQuery fails with that error, issues no completion request and
\* returns no result; the default candidates [1,2,3] are used only when the
\* call returned text that does not decode to a JSON array, and then a
\* completed query lists each of pages 1, 2, 3 in relevantPageNumbers.
C1_TriageFailurePropagates ==
  /\ TriageFailed =>
       /\ pc = "failed"
       /\ error \in {Surfaced(via, "Connection error."), Surfaced(via, "No response from OpenAI")}
       /\ complCalls = 0
       /\ result = NoResult
  /\ (TriageUndecodable /\ pc = "done") => \A p \in 1..3 : InRelevantPages(p)

C1_Witness ==
  /\ triageResp = Thrown
  /\ pc = "failed"
  /\ PagePresent(1) /\ PagePresent(2) /\ PagePresent(3)

\* C2 (as stated): when the corpus has zero pages, processQuery fails with an
\* empty-corpus error and neither service is called.
C2_ProcessQueryFailsFast ==
  (Len(documents) = 0 /\ pc # "start") =>
    /\ pc = "failed"
    /\ Includes(error, "No documents available to query")
    /\ classCalls = 0
    /\ complCalls = 0

\* C2 (amended): when the corpus has zero pages, queryDocument fails with the
\* error "No documents available to query" before processQuery is invoked, and
\* neither service is called; processQuery itself has no empty-corpus check.
C2_RouterRejectsEmptyCorpus ==
  (Len(documents) = 0 /\ via = "router") =>
    /\ pc = "failed"
    /\ error = "Query processing failed: Error: No documents available to query"
    /\ classCalls = 0
    /\ complCalls = 0
    /\ triageResp = NoResponse
    /\ result = NoResult

C2_Witness ==
  /\ documents = <<>>
  /\ via = "router"
  /\ pc = "failed"

\* the termination-policy scenario with triage returning [1], completed
Scenario ==
  /\ documents = ScenarioCorpus
  /\ query = "What is the termination policy?"
  /\ triageResp = Text("[1]")
  /\ pc = "done"

\* C3 (as stated): in the scenario relevantPageNumbers contains 1 and page 3 is
\* surfaced in sources through the keyword scan.
C3_PageThreeSurfaced ==
  Scenario =>
    /\ InRelevantPages(1)
    /\ \E i \in 1..Len(result.sources) : result.sources[i].pageNbr = 3

\* C3 (amended): in the scenario relevantPageNumbers is [1] and sources holds
\* page 1 only: the content match alone gives page 3 a raw score of 1, which
\* does not exceed the >2 admission threshold, so the scan does not admit it.
C3_PageThreeNotAdmitted ==
  Scenario =>
    /\ result.relevantPages = <<Num(1)>>
    /\ SourceNbrs(result.sources) = <<1>>
    /\ SourceNbrs(sources) = <<1>>

C3_Witness == Scenario /\ Len(result.sources) = 1

\* relevance a is greater than, or equal to, relevance b
Greater(a, b) == a.num * b.den > b.num * a.den
Same(a, b) == a.num * b.den = b.num * a.den

\* item a is ranked before item b: higher relevance, or equal and found earlier
RankedBefore(a, b) ==
  \/ Greater(a.relevance, b.relevance)
  \/ Same(a.relevance, b.relevance) /\ a.ord < b.ord

\* the history field ord is the discovery order: candidates in triage order,
\* then scanned pages in corpus order
FoundInOrder(a, b) ==
  \/ a.origin = "triage" /\ b.origin = "scan"
  \/ /\ a.origin = "triage" /\ b.origin = "triage"
     /\ \E i, j \in 1..Min(Len(relevantPageNumbers), 5) :
          /\ i < j
          /\ relevantPageNumbers[i] = Num(a.pageNbr)
          /\ relevantPageNumbers[j] = Num(b.pageNbr)
  \/ /\ a.origin = "scan" /\ b.origin = "scan"
     /\ \E i, j \in 1..Len(documents) :
          /\ i < j
          /\ documents[i].pageNbr = a.pageNbr
          /\ documents[j].pageNbr = b.pageNbr
          /\ Substring(documents[i].content, 800) = a.content
          /\ Substring(documents[j].content, 800) = b.content

\* C4: the returned sources list has at most 5 items and is sorted in
\* descending relevance, items of equal relevance in discovery order (triage
\* candidates in triage order, then scanned pages in corpus order).
C4_SourcesCappedAndSorted ==
  pc = "done" =>
    /\ Len(result.sources) <= 5
    /\ \A i, j \in 1..Len(result.sources) :
         i < j => RankedBefore(result.sources[i], result.sources[j])
    /\ \A i, j \in 1..Len(sources) :
         sources[i].ord < sources[j].ord => FoundInOrder(sources[i], sources[j])

C4_Witness ==
  /\ pc = "done"
  /\ Len(sources) > 5
  /\ Len(result.sources) = 5
  /\ \E i, j \in 1..5 :
       /\ i < j
       /\ Same(result.sources[i].relevance, result.sources[j].relevance)
  /\ \E i, j \in 1..5 :
       /\ i < j
       /\ Greater(result.sources[i].relevance, result.sources[j].relevance)
       /\ result.sources[i].ord > result.sources[j].ord

\* C5: the returned relevantPageNumbers contains no page number twice, also
\* when triage repeats a page number or overlaps with the evidence pages.
C5_NoDuplicatePageNumbers ==
  pc = "done" =>
    \A i, j \in 1..Len(result.relevantPages) :
      (i # j /\ result.relevantPages[i].t = "num")
        => result.relevantPages[i] # result.relevantPages[j]

C5_Witness ==
  /\ pc = "done"
  /\ \E i, j \in 1..Len(relevantPageNumbers) :
       i # j /\ relevantPageNumbers[i].t = "num"
             /\ relevantPageNumbers[i] = relevantPageNumbers[j]
  /\ \E i \in 1..Len(sources) : sources[i].origin = "scan"
  /\ Len(result.relevantPages) < Len(relevantPageNumbers) + Len(sources)

\* the page numbers of the scanned items of a list, in the order of the list
RECURSIVE ScannedNbrs(_)
ScannedNbrs(items) ==
  IF items = <<>> THEN <<>>
  ELSE (IF Head(items).origin = "scan" THEN <<Num(Head(items).pageNbr)>> ELSE <<>>)
         \o ScannedNbrs(Tail(items))

RECURSIVE Distinct(_)
Distinct(list) ==
  IF list = <<>> THEN <<>>
  ELSE LET rest == Distinct(SubSeq(list, 1, Len(list) - 1))
           last == list[Len(list)]
       IN  IF \E i \in 1..Len(rest) : rest[i].t \in {"num", "str", "null", "bool"} /\ rest[i] = last
             THEN rest ELSE Append(rest, last)

\* C6 (as stated): relevantPageNumbers lists the triage candidates in triage
\* order followed by the keyword-discovered pages in the order the scan
\* discovered them, not in the relevance-sorted order of the evidence set.
C6_DiscoveryOrder ==
  pc = "done" =>
    result.relevantPages
      = Distinct(relevantPageNumbers) \o Distinct(ScannedNbrs(ByDiscovery(sources)))

\* C6 (amended): relevantPageNumbers lists the triage output in triage order
\* followed by the keyword-discovered pages in the relevance-sorted order of
\* the evidence set (descending relevance, equal relevance in discovery
\* order), each number once.
C6_TriageThenSortedOrder ==
  pc = "done" =>
    /\ result.relevantPages = Distinct(relevantPageNumbers) \o Distinct(ScannedNbrs(sources))
    /\ \A i, j \in 1..Len(sources) : i < j => RankedBefore(sources[i], sources[j])

C6_Witness ==
  /\ pc = "done"
  /\ Len(relevantPageNumbers) > 0
  /\ \E i, j \in 1..Len(sources) :
       /\ i < j
       /\ sources[i].origin = "scan" /\ sources[j].origin = "scan"
       /\ sources[i].ord > sources[j].ord
       /\ sources[i].pageNbr # sources[j].pageNbr

\* C7: no scanned page receives a relevance greater than 1.0, so sorting never
\* places a triage-selected page (relevance 1.0) after a scanned page unless
\* that page's relevance is exactly 1.0.
C7_ScannedAtMostOne ==
  /\ \A i \in 1..Len(sources) :
       sources[i].origin = "scan" => ~Greater(sources[i].relevance, One)
  /\ \A i, j \in 1..Len(sources) :
       (i < j /\ sources[i].origin = "scan" /\ sources[j].origin = "triage")
         => Same(sources[i].relevance, One)

\* the classification call has settled
Triaged == pc \notin {"start", "triage"}

\* an error that left identifyRelevantPages: processQuery failed before it
\* issued the completion request
SelectorThrew == pc = "failed" /\ complCalls = 0

\* C8: when the classification service returns text that is not valid JSON,
\* the page selector returns the default [1,2,3] and no exception escapes it.
C8_MalformedFallsBack ==
  (Triaged /\ triageResp.kind = "text"
           /\ triageResp.text \in MalformedTexts \cup EmbeddedArrayTexts) =>
    /\ ~SelectorThrew
    /\ relevantPageNumbers = <<Num(1), Num(2), Num(3)>>

C8_Witness ==
  /\ triageResp = Text("Pages 4 and 7")
  /\ pc = "aggregate"
  /\ relevantPageNumbers = <<Num(1), Num(2), Num(3)>>

\* C9 (as stated): when the response does not decode directly as JSON but
\* contains an embedded array-like substring, the page selector decodes that
\* substring and returns its page numbers.
C9_EmbeddedArrayDecoded ==
  (Triaged /\ triageResp.kind = "text" /\ triageResp.text \in EmbeddedArrayTexts) =>
    /\ JSONParse(ExtractArray(triageResp.text)).ok
    /\ relevantPageNumbers = JSONParse(ExtractArray(triageResp.text)).elems

\* C9 (amended): when the response does not decode directly as JSON the page
\* selector returns the default [1,2,3], also when the text contains an
\* embedded array-like substring: no embedded-array decode is attempted.  The
\* default is used exactly when the direct decode fails or yields a value
\* that is not an array.
C9_NoEmbeddedDecode ==
  (Triaged /\ triageResp.kind = "text" /\ triageResp.text # "") =>
    /\ triageResp.text \in EmbeddedArrayTexts
         => relevantPageNumbers = <<Num(1), Num(2), Num(3)>>
    /\ triageResp.text \in NonArrayTexts \cup MalformedTexts
         => relevantPageNumbers = <<Num(1), Num(2), Num(3)>>
    /\ triageResp.text \in ArrayTexts
         => /\ relevantPageNumbers # <<Num(1), Num(2), Num(3)>>
            /\ Len(relevantPageNumbers) = Cardinality({i \in 1..Len(triageResp.text) :
                                                        CharAt(triageResp.text, i) = ","})
                                          + (IF triageResp.text = "[]" THEN 0 ELSE 1)

C9_Witness ==
  /\ triageResp = Text("The relevant pages are [4, 7]")
  /\ pc = "aggregate"
  /\ relevantPageNumbers = <<Num(1), Num(2), Num(3)>>

\* the completion call succeeded with empty or no text
CompletionEmpty == complResp \in {NoChoices, NullContent, Text("")}

\* the router's output schema refuses what processQuery returned: triage gave
\* an element that is no number
OutputRefused ==
  /\ via = "router"
  /\ \E i \in 1..Len(relevantPageNumbers) : relevantPageNumbers[i].t # "num"

\* C10: when the completion service succeeds but returns empty or no text,
\* processQuery returns normally with the fixed fallback answer, and sources
\* and relevantPageNumbers are what they are for a non-empty completion.
\* (Where the router's output schema refuses the returned object, the router's
\* caller sees that failure.)
C10_EmptyCompletionFallback ==
  (CompletionEmpty /\ ~OutputRefused) =>
    /\ pc = "done"
    /\ error = ""
    /\ result.answer = "No answer could be generated from the available content."
    /\ result.sources = SubSeq(sources, 1, Min(Len(sources), 5))
    /\ result.relevantPages = Distinct(relevantPageNumbers) \o Distinct(ScannedNbrs(sources))
    /\ Len(sources) > 0 => Len(result.sources) > 0

C10_Witness ==
  /\ complResp = Text("")
  /\ pc = "done"
  /\ Len(result.sources) > 1
  /\ Len(result.relevantPages) > 1

\* C11: when the completion call throws, processQuery fails with that error
\* and returns no result; the caller receives either a complete result
\* (answer, relevantPageNumbers and sources all set) or a single error, never a
\* partial result, and the synthesis call is not retried.
C11_CompleteResultOrError ==
  /\ complResp = Thrown =>
       /\ pc = "failed"
       /\ error \in {"Connection error.", "Query processing failed: Error: Connection error."}
       /\ result = NoResult
  /\ pc = "done" =>
       /\ error = ""
       /\ result.answer # ""
       /\ result.steps = 0
       /\ Len(relevantPageNumbers) > 0 => Len(result.relevantPages) > 0
       /\ Len(sources) > 0 => Len(result.sources) > 0 /\ Len(result.relevantPages) > 0
  /\ pc = "failed" => result = NoResult /\ error # ""
  /\ pc \notin {"done", "failed"} => result = NoResult /\ error = ""
  /\ complCalls <= 1
  /\ complResp # NoResponse => pc \in {"done", "failed"}

C11_Witness ==
  /\ complResp = Thrown
  /\ pc = "failed"
  /\ complCalls = 1
  /\ Len(sources) > 1

\* page `target` is cited by page `page`: one of page's references occurs in
\* target's text (the section heading that the reference names)
Cites(page, target) ==
  \E i \in 1..Len(page.references) :
    Includes(ToLowerCase(target.content), ToLowerCase(page.references[i]))

\* the pages of the corpus that a triage-selected page of the evidence cites
CrossReferenced ==
  {j \in 1..Len(documents) :
     \E i \in 1..Len(sources), k \in 1..Len(documents) :
       /\ sources[i].origin = "triage"
       /\ documents[k].pageNbr = sources[i].pageNbr
       /\ k # j
       /\ Cites(documents[k], documents[j])}

\* C12 (as stated): once the evidence set is built, every page that a
\* triage-selected page cites in its references is in the evidence set, also
\* when triage did not return it and the keyword scan did not admit it.
C12_CrossReferencedGathered ==
  (pc \in {"synthesis", "done"} /\ Len(sources) < EvidenceCap) =>
     \A j \in CrossReferenced :
       \E i \in 1..Len(sources) : sources[i].pageNbr = documents[j].pageNbr

\* C15: the stages of one invocation run in the order triage, aggregate,
\* synthesize: no evidence exists while the classification call is pending,
\* the completion request is issued only once the classification call has
\* returned and the evidence set is built and sorted, and every triage
\* candidate is added to the evidence set before any scanned page.
C15_StagesInOrder ==
  /\ pc \in {"start", "triage", "aggregate"} => complCalls = 0 /\ complResp = NoResponse
  /\ pc \in {"start", "triage"} => sources = <<>> /\ relevantPageNumbers = <<>>
  /\ pc = "start" => classCalls = 0
  /\ complCalls = 1 =>
       /\ classCalls = 1
       /\ triageResp \notin {NoResponse, Thrown}
       /\ pc \in {"synthesis", "done", "failed"}
       /\ \A i, j \in 1..Len(sources) :
            i < j => ~Greater(sources[j].relevance, sources[i].relevance)
       /\ \A i, j \in 1..Len(sources) :
            (sources[i].origin = "triage" /\ sources[j].origin = "scan")
              => sources[i].ord < sources[j].ord
       /\ \A k \in 1..Len(sources) : \E i \in 1..Len(sources) : sources[i].ord = k

C15_Witness ==
  /\ pc = "synthesis"
  /\ complCalls = 1
  /\ \E i, j \in 1..Len(sources) :
       /\ i < j
       /\ sources[i].origin = "scan"
       /\ sources[j].origin = "triage"
       /\ Greater(sources[i].relevance, sources[j].relevance)

\* the first page of the corpus that carries number v (0 if there is none)
FirstWith(v) ==
  IF \E k \in 1..Len(documents) : v = Num(documents[k].pageNbr)
    THEN CHOOSE k \in 1..Len(documents) :
           /\ v = Num(documents[k].pageNbr)
           /\ \A l \in 1..(k - 1) : v # Num(documents[l].pageNbr)
    ELSE 0

\* the positions among the first five triage entries that name a page
Matching == {k \in 1..Min(Len(relevantPageNumbers), 5) : FirstWith(relevantPageNumbers[k]) # 0}

\* C17: for each of the first 5 numbers that triage returned, in triage order,
\* the evidence holds one item iff a page with that number exists; the item has
\* relevance exactly 1 and its excerpt is the first 1000 characters of the
\* page's content.  A number with no page gives no item and no error.
C17_CandidatePerExistingPage ==
  pc \in {"synthesis", "done"} =>
    /\ Cardinality({i \in 1..Len(sources) : sources[i].origin = "triage"}) = Cardinality(Matching)
    /\ \A k \in Matching :
         \E i \in 1..Len(sources) :
           LET page == documents[FirstWith(relevantPageNumbers[k])]
           IN  /\ sources[i].origin = "triage"
               /\ sources[i].ord = Cardinality({l \in Matching : l <= k})
               /\ Num(sources[i].pageNbr) = relevantPageNumbers[k]
               /\ sources[i].relevance = [num |-> 1, den |-> 1]
               /\ sources[i].content = SubSeq(page.content, 1, Min(Len(page.content), 1000))
    /\ pc = "synthesis" => error = ""

C17_Witness ==
  /\ pc = "synthesis"
  /\ Len(relevantPageNumbers) > 1
  /\ Cardinality(Matching) < Min(Len(relevantPageNumbers), 5)
  /\ \E i \in 1..Len(sources) :
       /\ sources[i].origin = "triage"
       /\ Len(sources[i].content) = 1000
       /\ \E k \in 1..Len(documents) :
            /\ documents[k].pageNbr = sources[i].pageNbr
            /\ Len(documents[k].content) > 1000

\* the keywords of the list that occur in text (by position in the list)
Hits(text, keywords) ==
  {k \in 1..Len(keywords) : Includes(text, keywords[k])}

TagHits(tags, keywords) ==
  {k \in 1..Len(keywords) : \E t \in 1..Len(tags) : Includes(tags[t], keywords[k])}

TriageCount == Cardinality({i \in 1..Len(sources) : sources[i].origin = "triage"})

\* what the scan sees in the current state, per page j of the corpus:
\*   raw[j]   the raw (pre-normalisation) score of page j
\*   qual[j]  page j is scanned (triage did not return its number) and scores above 2
\*   size[j]  the size of the evidence set at the moment page j is visited
\*   adm[j]   page j qualifies and is visited while the set holds fewer than 10 items
RECURSIVE RawScores(_, _)
RawScores(docs, keywords) ==
  IF docs = <<>> THEN <<>>
  ELSE LET content == ToLowerCase(Head(docs).content)
           summary == ToLowerCase(Head(docs).summary)
           tags == [t \in 1..Len(Head(docs).tags) |-> ToLowerCase(Head(docs).tags[t])]
       IN  <<   Cardinality(Hits(content, keywords))
              + 2 * Cardinality(Hits(summary, keywords))
              + Cardinality(TagHits(tags, keywords)) >>
           \o RawScores(Tail(docs), keywords)

ScanView ==
  LET pages == 1..Len(documents)
      raw == RawScores(documents, Keywords(query))
      qual == [j \in pages |->
                 /\ \A k \in 1..Len(relevantPageNumbers) :
                      relevantPageNumbers[k] # Num(documents[j].pageNbr)
                 /\ raw[j] > 2]
      size == [j \in pages |->
                 Min(10, TriageCount + Cardinality({l \in 1..(j - 1) : qual[l]}))]
  IN  [raw |-> raw, qual |-> qual, size |-> size,
       adm |-> [j \in pages |-> qual[j] /\ size[j] < 10]]

\* C18: the scan visits the pages in corpus order and admits a page iff its
\* raw score is strictly greater than 2 and the evidence set holds fewer than
\* 10 items when the page is visited; once the set holds 10 items no later
\* page is admitted, whatever its score.  (Stated where the evidence set has
\* just been built; no later step writes to it.)
C18_AdmissionRule ==
  pc = "synthesis" =>
    LET scan == ScanView
    IN  /\ Cardinality({i \in 1..Len(sources) : sources[i].origin = "scan"})
             = Cardinality({j \in 1..Len(documents) : scan.adm[j]})
        /\ \A j \in 1..Len(documents) :
             scan.adm[j] =>
               \E i \in 1..Len(sources) :
                 /\ sources[i].origin = "scan"
                 /\ sources[i].ord = scan.size[j] + 1
                 /\ sources[i].pageNbr = documents[j].pageNbr
        /\ \A j \in 1..Len(documents) :
             scan.size[j] = 10 =>
               ~\E i \in 1..Len(sources) :
                  sources[i].origin = "scan" /\ sources[i].ord > scan.size[j]

C18_Witness ==
  /\ pc = "synthesis"
  /\ Len(sources) = 10
  /\ LET scan == ScanView
     IN  /\ \E j \in 1..Len(documents) : scan.qual[j] /\ ~scan.adm[j]
         /\ \E j \in 1..Len(documents) : scan.adm[j]
         /\ \E j \in 1..Len(documents) : scan.raw[j] \in 1..2

\* item is an excerpt of at most limit characters of a page with its number
ExcerptWithin(item, limit) ==
  /\ Len(item.content) <= limit
  /\ \E k \in 1..Len(documents) :
       /\ documents[k].pageNbr = item.pageNbr
       /\ Len(item.content) <= Len(documents[k].content)
       /\ item.content = SubSeq(documents[k].content, 1, Len(item.content))
       /\ Len(item.content) = Len(documents[k].content) \/ Len(item.content) = limit

\* C19: the evidence set never holds more than 10 items, at most 5 of them
\* triage candidates; every excerpt is a prefix of its page's content, of at
\* most 1000 characters for a triage candidate and at most 800 for a scanned
\* page.
C19_ContextBounded ==
  /\ Len(sources) <= 10
  /\ Cardinality({i \in 1..Len(sources) : sources[i].origin = "triage"}) <= 5
  /\ \A i \in 1..Len(sources) :
       /\ sources[i].origin \in {"triage", "scan"}
       /\ sources[i].origin = "triage" => ExcerptWithin(sources[i], 1000)
       /\ sources[i].origin = "scan" => ExcerptWithin(sources[i], 800)
  /\ pc = "done" => Len(result.sources) <= 5

\* the evidence set is full, with 5 triage candidates out of more than 5
\* triage numbers and a qualifying page left out, and both excerpt lengths cut
\* a longer page
C19_Witness ==
  /\ pc = "synthesis"
  /\ Len(sources) = 10
  /\ Len(relevantPageNumbers) > 5
  /\ Cardinality({i \in 1..Len(sources) : sources[i].origin = "triage"}) = 5
  /\ LET scan == ScanView IN \E j \in 1..Len(documents) : scan.qual[j] /\ ~scan.adm[j]
  /\ \E i, j \in 1..Len(sources) :
       /\ sources[i].origin = "triage" /\ Len(sources[i].content) = 1000
       /\ sources[j].origin = "scan" /\ Len(sources[j].content) = 800

\* keyword k of the tool's arguments occurs in text, case-insensitively
Occurs(text, k) == Includes(ToLowerCase(text), ToLowerCase(toolArgs[k]))

ContentMatches(j) ==
  {k \in 1..Len(toolArgs) : Occurs(documents[j].content, k)}

SummaryMatches(j) ==
  {k \in 1..Len(toolArgs) : Occurs(documents[j].summary, k)}

TagMatches(j) ==
  {k \in 1..Len(toolArgs) :
     \E t \in 1..Len(documents[j].tags) : Occurs(documents[j].tags[t], k)}

\* C16: for every page and keyword list the score of searchPages is
\* non-negative, is the sum over the keywords of 3 for a content match, 2 for
\* a summary match and 1 when any tag contains the keyword (case-insensitive
\* substring matches), and is 0 exactly when no keyword occurs in the page's
\* content, summary or tags.
C16_SearchScore ==
  searchOut # NoOutput =>
    /\ Len(searchOut.scored) = Len(documents)
    /\ \A j \in 1..Len(documents) :
         LET score == searchOut.scored[j].relevance
         IN  /\ score >= 0
             /\ score = 3 * Cardinality(ContentMatches(j))
                        + 2 * Cardinality(SummaryMatches(j))
                        + Cardinality(TagMatches(j))
             /\ score = 0 <=>
                  ~\E k \in 1..Len(toolArgs) :
                     \/ Occurs(documents[j].content, k)
                     \/ Occurs(documents[j].summary, k)
                     \/ \E t \in 1..Len(documents[j].tags) : Occurs(documents[j].tags[t], k)
    /\ \A i \in 1..Len(searchOut.results) :
         searchOut.results[i] = searchOut.scored[searchOut.results[i].idx]

\* a page matched in content, summary and tag by a keyword given in upper
\* case, next to a page that no keyword matches
C16_Witness ==
  /\ searchOut # NoOutput
  /\ \E k \in 1..Len(toolArgs) : ToLowerCase(toolArgs[k]) # toolArgs[k]
  /\ \E j \in 1..Len(documents) :
       /\ ContentMatches(j) # {}
       /\ SummaryMatches(j) # {}
       /\ TagMatches(j) # {}
       /\ searchOut.scored[j].relevance >= 6
  /\ \E j \in 1..Len(documents) : searchOut.scored[j].relevance = 0
  /\ \E i \in 1..Len(searchOut.results) : searchOut.results[i].relevance = 5

\* both scorers have run on the tool's keywords, and the keywords are in lower
\* case, as every keyword that processQuery derives from a query is
BothScored ==
  /\ searchOut # NoOutput
  /\ scanOut.done
  /\ \A k \in 1..Len(toolArgs) : ToLowerCase(toolArgs[k]) = toolArgs[k]

\* C20 (as stated): for every page and keyword list the raw score of the scan
\* equals the score that searchPages computes.
C20_ScanEqualsSearch ==
  BothScored =>
    \A j \in 1..Len(documents) : scanOut.raw[j] = searchOut.scored[j].relevance

\* C20 (amended): the two scorers agree on the summary weight (2) and the tag
\* weight (1) and differ on the content weight, 1 in the scan and 3 in
\* searchPages: the score of searchPages is the scan's raw score plus 2 for
\* every keyword that occurs in the content; the two are equal exactly for the
\* pages in whose content no keyword occurs.
C20_SearchExceedsScanByContent ==
  BothScored =>
    \A j \in 1..Len(documents) :
      /\ searchOut.scored[j].relevance = scanOut.raw[j] + 2 * Cardinality(ContentMatches(j))
      /\ scanOut.raw[j] = searchOut.scored[j].relevance <=> ContentMatches(j) = {}

C20_Witness ==
  /\ BothScored
  /\ \E j \in 1..Len(documents) :
       /\ ContentMatches(j) # {}
       /\ scanOut.raw[j] > 0
       /\ searchOut.scored[j].relevance > scanOut.raw[j]
  /\ \E j \in 1..Len(documents) :
       /\ ContentMatches(j) = {}
       /\ scanOut.raw[j] > 0

\* C13: processQuery called twice on one agent with the same query, an
\* unchanged page collection and stubs that answer the second call as they
\* answered the first gives the same outcome twice: the same answer, the same
\* relevantPageNumbers, the same sources (or the same error); nothing the
\* first call left behind reaches the second.
C13_SecondCallSameResult ==
  /\ calls[2].pc \in {"done", "failed"} =>
       /\ calls[1].pc = calls[2].pc
       /\ calls[2].result.answer = calls[1].result.answer
       /\ calls[2].result.relevantPages = calls[1].result.relevantPages
       /\ calls[2].result.sources = calls[1].result.sources
       /\ calls[2].result.steps = calls[1].result.steps
       /\ calls[2].error = calls[1].error
  /\ calls[2].pc \in {"aggregate", "synthesis"} =>
       calls[2].relevantPageNumbers = calls[1].relevantPageNumbers
  /\ calls[2].pc = "synthesis" => calls[2].sources = calls[1].sources
  /\ calls[2].pc = "triage" => calls[2].sources = <<>>

C13_Witness ==
  /\ calls[1].pc = "done"
  /\ calls[2].pc = "done"
  /\ ~calls[2].overlap
  /\ Len(calls[1].sources) > 5
  /\ Len(calls[2].result.sources) = 5
  /\ \E i \in 1..5 : calls[2].result.sources[i].origin = "scan"
  /\ \E i \in 1..Len(calls[2].sources) : calls[2].sources[i].origin = "triage"

\* what invocation i returns when it runs alone on the page collection, given
\* the answers its two requests got
AloneResult(i) ==
  QueryAgentResult(calls[i].complResp,
                   IdentifyRelevantPages(calls[i].triageResp).pages,
                   Aggregated(documents, calls[i].query,
                              IdentifyRelevantPages(calls[i].triageResp).pages))

AloneError(i) ==
  IF IdentifyRelevantPages(calls[i].triageResp).threw
    THEN IdentifyRelevantPages(calls[i].triageResp).error
    ELSE ServiceErrorMessage

\* C14: for any interleaving of concurrent processQuery invocations on the
\* same page array, no step changes the page collection, and every invocation
\* returns what it would return when run alone.
C14_NoInterference ==
  /\ [](\A i \in Invocations :
          /\ calls[i].pc = "done" =>
               calls[i].result = AloneResult(i) /\ calls[i].error = ""
          /\ calls[i].pc = "failed" =>
               calls[i].result = NoResult /\ calls[i].error = AloneError(i))
  /\ [][documents' = documents]_vars

\* two invocations with different queries that were in flight together have
\* both returned
C14_Witness ==
  /\ calls[1].pc = "done"
  /\ calls[2].pc = "done"
  /\ calls[2].overlap
  /\ calls[1].query # calls[2].query
  /\ calls[1].triageResp # calls[2].triageResp
  /\ Len(calls[1].result.sources) > 0
  /\ Len(calls[2].result.sources) > 0
  /\ calls[1].result # calls[2].result

\* C21 (as stated): the evidence set holds at most one item per page number.
C21_OneItemPerPageNumber ==
  \A i, j \in 1..Len(sources) :
    i # j => sources[i].pageNbr # sources[j].pageNbr

\* C22 (as stated): every page number in the returned relevantPageNumbers is
\* the number of an evidence item that was part of the context sent to the
\* completion service, and so of a page of the corpus.
C22_RelevantPagesContributed ==
  pc = "done" =>
    \A k \in 1..Len(result.relevantPages) :
      /\ \E i \in 1..Len(sources) : Num(sources[i].pageNbr) = result.relevantPages[k]
      /\ \E j \in 1..Len(documents) : Num(documents[j].pageNbr) = result.relevantPages[k]

\* the tokens of s between whitespace characters that are longer than 3
\* characters; cur is the token being read
RECURSIVE WhitespaceTokens(_, _)
WhitespaceTokens(s, cur) ==
  IF s = "" THEN (IF Len(cur) > 3 THEN <<cur>> ELSE <<>>)
  ELSE IF IsWs(SubSeq(s, 1, 1))
    THEN (IF Len(cur) > 3 THEN <<cur>> ELSE <<>>)
           \o WhitespaceTokens(SubSeq(s, 2, Len(s)), "")
    ELSE WhitespaceTokens(SubSeq(s, 2, Len(s)), cur \o SubSeq(s, 1, 1))

\* C23 (as stated): the keywords of a query are its tokens between whitespace
\* (spaces, tabs, newlines, runs of them) that are longer than 3 characters,
\* lower-cased; so queries that differ only in the kind of whitespace between
\* their words have the same keywords.
C23_SplitOnWhitespace ==
  \A i \in Invocations :
    calls[i].pc = "synthesis" =>
      calls[i].keywords = WhitespaceTokens(ToLowerCase(calls[i].query), "")

\* C24 (as stated): whatever text the classification service returns, every
\* element of the candidate list, and so of relevantPageNumbers in the result,
\* is an integer.
C24_CandidatesAreIntegers ==
  /\ \A k \in 1..Len(relevantPageNumbers) : relevantPageNumbers[k].t = "num"
  /\ \A k \in 1..Len(result.relevantPages) : result.relevantPages[k].t = "num"

\* a request has been issued and has not settled
ClassificationInFlight == classCalls > 0 /\ triageResp = NoResponse
CompletionInFlight == complCalls > 0 /\ complResp = NoResponse

\* C25: an invocation issues at most one classification request and at most
\* one completion request, the two are never in flight together, and a
\* request that failed is not issued again.
C25_OneRequestEach ==
  /\ classCalls <= 1
  /\ complCalls <= 1
  /\ ~(ClassificationInFlight /\ CompletionInFlight)
  /\ complCalls = 1 => classCalls = 1 /\ triageResp # NoResponse
  /\ (pc = "failed" /\ triageResp # NoResponse) =>
       /\ ~ClassificationInFlight
       /\ ~CompletionInFlight
       /\ classCalls = 1
       /\ complResp = NoResponse => complCalls = 0
  /\ ClassificationInFlight <=> pc = "triage"
  /\ CompletionInFlight <=> pc = "synthesis"

C25_Witness ==
  /\ pc = "failed"
  /\ complResp = Thrown
  /\ classCalls = 1
  /\ complCalls = 1
  /\ Len(relevantPageNumbers) > 0

\* entry a of the scored pages goes before entry b in the result of searchPages
Outranks(a, b) ==
  \/ a.relevance > b.relevance
  \/ a.relevance = b.relevance /\ a.idx < b.idx

\* C26: searchPages returns only pages that score above 0, by score
\* descending with equal scores in corpus order, and at most 10 of them; when
\* more than 10 pages score above 0 the result is the 10 that rank highest.
C26_SearchResults ==
  searchOut # NoOutput =>
    LET results == searchOut.results
        scored == searchOut.scored
        positive == {j \in 1..Len(scored) : scored[j].relevance > 0}
        returned == {results[i].idx : i \in 1..Len(results)}
    IN  /\ Len(results) = Min(10, Cardinality(positive))
        /\ returned \subseteq positive
        /\ Cardinality(returned) = Len(results)
        /\ \A i \in 1..Len(results) :
             /\ results[i].relevance > 0
             /\ results[i].relevance = scored[results[i].idx].relevance
             /\ results[i].pageNbr = documents[results[i].idx].pageNbr
        /\ \A i, j \in 1..Len(results) : i < j => Outranks(results[i], results[j])
        /\ \A j \in positive \ returned :
             \A i \in 1..Len(results) : Outranks(results[i], scored[j])

\* more than 10 pages score above 0: one is left out, and equal scores occur
\* among the 10 returned
C26_Witness ==
  /\ searchOut # NoOutput
  /\ Len(searchOut.results) = 10
  /\ Cardinality({j \in 1..Len(searchOut.scored) : searchOut.scored[j].relevance > 0}) > 10
  /\ \E i \in 1..9 : searchOut.results[i].relevance = searchOut.results[i + 1].relevance
  /\ \E i \in 1..9 : searchOut.results[i].relevance > searchOut.results[i + 1].relevance
  /\ \E i \in 1..9 : searchOut.results[i].idx > searchOut.results[i + 1].idx

\* C27: every evidence item's relevance is a finite positive number: a
\* scanned page is admitted only when the query has a keyword, so the
\* division by the keyword count is never a division by zero, and a query
\* with no token longer than 3 characters admits no scanned page (the
\* evidence is the triage candidates alone).
C27_RelevanceFinitePositive ==
  /\ \A i \in 1..Len(sources) :
       /\ sources[i].relevance.den > 0
       /\ sources[i].relevance.num > 0
       /\ sources[i].origin = "scan" =>
            /\ \E w \in 1..Len(SplitOnSpace(query)) : Len(SplitOnSpace(query)[w]) > 3
            /\ sources[i].relevance.num * Len(Keywords(query)) > 2 * sources[i].relevance.den
  /\ (\A w \in 1..Len(SplitOnSpace(query)) : Len(SplitOnSpace(query)[w]) <= 3) =>
       \A i \in 1..Len(sources) : sources[i].origin = "triage"

\* a query without a keyword has been aggregated over a corpus with pages
\* that triage did not return
C27_Witness ==
  /\ pc = "synthesis"
  /\ query = "is it ok"
  /\ Len(sources) > 0
  /\ \E j \in 1..Len(documents) :
       \A k \in 1..Len(relevantPageNumbers) :
         relevantPageNumbers[k] # Num(documents[j].pageNbr)

\* the number p occurs in the triage output, and only after the fifth position
OnlyAfterCap(p) ==
  /\ \E k \in (CandidateCap + 1)..Len(relevantPageNumbers) : relevantPageNumbers[k] = Num(p)
  /\ \A k \in 1..Min(CandidateCap, Len(relevantPageNumbers)) : relevantPageNumbers[k] # Num(p)

\* C28: a page whose number occurs in the triage output only after the
\* fifth position is neither a candidate nor scanned: no evidence item and
\* no source carries its number, while relevantPages still lists it.
C28_BeyondCapExcluded ==
  (pc \in {"synthesis", "done"}) =>
    \A j \in 1..Len(documents) :
      OnlyAfterCap(documents[j].pageNbr) =>
        /\ \A i \in 1..Len(sources) : sources[i].pageNbr # documents[j].pageNbr
        /\ pc = "done" =>
             /\ \A i \in 1..Len(result.sources) :
                  result.sources[i].pageNbr # documents[j].pageNbr
             /\ InRelevantPages(documents[j].pageNbr)

\* a page that the scan would admit is listed sixth by triage, and the
\* query has been answered
C28_Witness ==
  /\ pc = "done"
  /\ Len(relevantPageNumbers) = 6
  /\ \E j \in 1..Len(documents) :
       /\ OnlyAfterCap(documents[j].pageNbr)
       /\ ScanScore(documents[j], Keywords(query)) > AdmissionThreshold
       /\ Len(sources) < EvidenceCap

C30_DeletedStaysDeleted ==
  \A d \in deleted :
    /\ tempDumps[d] = "none"
    /\ d \notin documentStore

====
